---- MODULE Spec2Model ----
(***************************************************************************)
(* Model of the editor's per-frame plugin dispatcher                       *)
(* (editor/src/state.rs, DefaultUIState) and of the sequential input       *)
(* wizard (editor/src/wizard.rs, Wizard / WrappedWizard).                  *)
(*                                                                         *)
(* The two components do not share state.  SpecUI runs the dispatcher,     *)
(* SpecWizard runs one wizard driven by a fixed workflow of questions.     *)
(***************************************************************************)
EXTENDS Integers, Sequences, FiniteSets, TLC

VARIABLES
    \* ---- DefaultUIState / PluginsPerMap (state.rs) ----
    secondary,                    \* secondary.is_some()
    exclusive_blocking_plugin,    \* "none" or the kind of plugin in the slot
    exclusive_nonblocking_plugin, \* "none", "diff_all" or "diff_trip"
    show_score,                   \* show_score.is_some()
    enable_debug_controls,
    hider,                        \* primary_plugins.hider.is_some()
    search,                       \* "none", or the search plugin's is_blocking() mode
    time_travel_active,           \* primary_plugins.time_travel.is_active()
    ambient_plugins,              \* primary_plugins.ambient_plugins, in list order
    \* ---- observation of the last call of DefaultUIState::event ----
    pre,                          \* the fields above as they were when event() was called
    received,                     \* plugins whose event handler ran, in call order
    tried,                        \* factories (X::new(&mut ctx)) evaluated, in call order
    returned_at,                  \* which return of event() ended the call
    activated,                    \* factories whose new(&mut ctx) returned Some
    reported_done,                \* plugins whose event handler returned false
    \* ---- Wizard (wizard.rs:8-15) ----
    alive,
    tb,                           \* "none", or the query of the TextBox
    menu,                         \* NoMenu, or the Menu: its query and its choices
    confirmed_state,              \* boxed answers, in the order of the queries made
    \* ---- WrappedWizard (wizard.rs:99-107) and the frame that holds it ----
    in_frame,                     \* a WrappedWizard exists
    ready_results,
    consumed,                     \* input.has_been_consumed()
    \* ---- the workflow that owns the wizard ----
    workflow,                     \* its questions, in the fixed order it asks them
    pc,                           \* the question the workflow asks next this frame
    panicked,                     \* an assert! or unwrap() failed: the program is gone
    \* ---- observation of the wizard ----
    frame,                        \* calls of Wizard::wrap so far
    answers,                      \* what each question asked this frame returned
    fed,                          \* widgets whose event(input) ran this frame
    last_call,                    \* what the last question call did
    confirmed_at_wrap,            \* confirmed_state when this frame was wrapped
    accepted,                     \* every fresh answer a widget and its parser gave
    \* ---- observation of the last read-only query of DefaultUIState ----
    view                          \* what color_obj or draw was asked and what it gave

uiVars == <<secondary, exclusive_blocking_plugin, exclusive_nonblocking_plugin,
            show_score, enable_debug_controls, hider, search, time_travel_active,
            ambient_plugins, pre, received, tried, returned_at, activated,
            reported_done>>

wizVars == <<alive, tb, menu, confirmed_state, in_frame, ready_results, consumed,
             workflow, pc, panicked, frame, answers, fed, last_call,
             confirmed_at_wrap, accepted>>

vars == <<uiVars, wizVars, view>>

None == "none"

(***************************************************************************)
(* Factories, in the order the source tries them.                          *)
(***************************************************************************)
\* state.rs:175-180, tried whatever the maps loaded
FirstFactories == <<"logs", "search", "warp">>

\* The edit factories with the first two in the wrong order.
EditFactories_Swapped == <<"color_picker", "a_b_tests", "draw_neighborhoods", "map_edits",
                           "road_editor", "scenarios", "stop_sign_editor",
                           "traffic_signal_editor">>

\* state.rs:181-203, tried only when no secondary map is loaded
EditFactories == <<"a_b_tests", "color_picker", "draw_neighborhoods", "map_edits",
                   "road_editor", "scenarios", "stop_sign_editor",
                   "traffic_signal_editor">>

\* state.rs:215-229, tried only with enable_debug_controls
DebugFactories == <<"chokepoints", "classification", "floodfill", "geom_validation">>

\* state.rs:246-250
NonblockingFactories == <<"diff_all", "diff_trip">>

Range(f) == {f[i] : i \in DOMAIN f}

Factories == Range(FirstFactories) \cup Range(EditFactories) \cup Range(DebugFactories)
             \cup Range(NonblockingFactories) \cup {"show_score", "hider"}

\* What one input event can be to the factories: the set of factories whose
\* new(&mut ctx) would return Some for it.  An event triggers no factory, one,
\* or two at once (two are needed for the priority order to matter).
WillingSets == {{}} \cup {{a, b} : a \in Factories, b \in Factories}

\* PluginsPerMap::new, state.rs:451-470
AmbientList(debug) ==
    <<"follow", "neighborhood_summary", "show_activity", "show_associated",
      "show_route", "turn_cycler">>
    \o (IF debug THEN <<"debug_objects">> ELSE <<>>)

(***************************************************************************)
(* DefaultUIState::event as a function from the state at the call (a       *)
(* record s of the fields, plus the observation fields) to the set of      *)
(* states it can return with, one per answer of the plugins it calls.      *)
(***************************************************************************)
Recv(s, p) == [s EXCEPT !.received = Append(@, p)]

Return(s, where) == [s EXCEPT !.returned_at = where]

\* An `if let Some(p) = A::new(..) {..} else if let Some(p) = B::new(..) ...`
\* chain over the factories fs: the index of the first factory of fs that is
\* willing, 0 when all decline.
FirstWilling(fs, w) ==
    IF \E i \in 1..Len(fs) : fs[i] \in w
    THEN CHOOSE i \in 1..Len(fs) : fs[i] \in w /\ \A j \in 1..(i-1) : fs[j] \notin w
    ELSE 0

\* The factories such a chain evaluates: all of them up to the first willing one.
TriedOf(fs, w) ==
    IF FirstWilling(fs, w) = 0 THEN fs ELSE SubSeq(fs, 1, FirstWilling(fs, w))

Try(s, fs, w) ==
    [s EXCEPT !.tried = @ \o TriedOf(fs, w),
              !.activated = @ \cup (IF FirstWilling(fs, w) = 0 THEN {}
                                    ELSE {fs[FirstWilling(fs, w)]})]

\* The handler of plugin p returned false: the plugin is finished.
Done(s, p) == [s EXCEPT !.reported_done = @ \cup {p}]

\* SearchBlockingTier without the teardown of state.rs:153.
SearchBlockingTier_NoTeardown(s) ==
    {Return([Recv(s, "search") EXCEPT !.search = m], "search_blocking") :
        m \in {"blocking", "nonblocking"}}
    \cup {Return(Done(Recv(s, "search"), "search"), "search_blocking")}

\* state.rs:139-156: search in its blocking sub-mode takes the event alone.
\* blocking_event returns whether the plugin stays; a plugin that stays may
\* have changed sub-mode.
SearchBlockingTier(s) ==
    {Return([Recv(s, "search") EXCEPT !.search = m], "search_blocking") :
        m \in {"blocking", "nonblocking"}}
    \cup {Return(Done([Recv(s, "search") EXCEPT !.search = None], "search"),
                 "search_blocking")}

\* state.rs:302-310
AmbientTier(s) ==
    LET s1 == Recv(s, "sim_controls")
        s2 == [s1 EXCEPT !.received = @ \o s.ambient_plugins]
        s3 == IF s.enable_debug_controls THEN Recv(s2, "layers") ELSE s2
    IN  {Return(s3, "end")}

\* HiderTier making a hider whatever enable_debug_controls is.
HiderTier_NoDebugGate(s, w) ==
    IF s.hider
    THEN AmbientTier(Recv(s, "hider"))
         \cup AmbientTier(Done([Recv(s, "hider") EXCEPT !.hider = FALSE], "hider"))
    ELSE AmbientTier([Try(s, <<"hider">>, w) EXCEPT !.hider = ("hider" \in w)])

\* state.rs:286-300
HiderTier(s, w) ==
    IF s.hider
    THEN AmbientTier(Recv(s, "hider"))
         \cup AmbientTier(Done([Recv(s, "hider") EXCEPT !.hider = FALSE], "hider"))
    ELSE IF s.enable_debug_controls
         THEN AmbientTier([Try(s, <<"hider">>, w) EXCEPT !.hider = ("hider" \in w)])
         ELSE AmbientTier(s)

\* SearchNonblockingTier going on to the hider and the ambient plugins after
\* the search plugin handled the event.
SearchNonblockingTier_NoReturn(s, w) ==
    IF s.search = "nonblocking"
    THEN UNION {HiderTier([Recv(s, "search") EXCEPT !.search = m], w) :
                   m \in {"blocking", "nonblocking"}}
         \cup HiderTier(Done([Recv(s, "search") EXCEPT !.search = None], "search"), w)
    ELSE HiderTier(s, w)

\* state.rs:267-284
SearchNonblockingTier(s, w) ==
    IF s.search = "nonblocking"
    THEN {Return([Recv(s, "search") EXCEPT !.search = m], "search_nonblocking") :
             m \in {"blocking", "nonblocking"}}
         \cup {Return(Done([Recv(s, "search") EXCEPT !.search = None], "search"),
                      "search_nonblocking")}
    ELSE HiderTier(s, w)

\* state.rs:254-266
ShowScoreTier(s, w) ==
    IF s.show_score
    THEN SearchNonblockingTier(Recv(s, "show_score"), w)
         \cup SearchNonblockingTier(
                  Done([Recv(s, "show_score") EXCEPT !.show_score = FALSE],
                       "show_score"), w)
    ELSE SearchNonblockingTier(
             [Try(s, <<"show_score">>, w) EXCEPT !.show_score = ("show_score" \in w)], w)

\* NonblockingTier returning from event() when its plugin is finished, as the
\* blocking slot does.
NonblockingTier_ReturnWhenDone(s, w) ==
    IF s.exclusive_nonblocking_plugin # None
    THEN ShowScoreTier(Recv(s, "exclusive_nonblocking_plugin"), w)
         \cup {Return(Done([Recv(s, "exclusive_nonblocking_plugin") EXCEPT
                                !.exclusive_nonblocking_plugin = None],
                            "exclusive_nonblocking_plugin"), "nonblocking_slot")}
    ELSE IF s.secondary
         THEN LET i == FirstWilling(NonblockingFactories, w)
                  s1 == Try(s, NonblockingFactories, w)
              IN  ShowScoreTier(
                      IF i = 0 THEN s1
                      ELSE [s1 EXCEPT !.exclusive_nonblocking_plugin =
                                          NonblockingFactories[i]], w)
         ELSE ShowScoreTier(s, w)

\* state.rs:232-252
NonblockingTier(s, w) ==
    IF s.exclusive_nonblocking_plugin # None
    THEN ShowScoreTier(Recv(s, "exclusive_nonblocking_plugin"), w)
         \cup ShowScoreTier(
                  Done([Recv(s, "exclusive_nonblocking_plugin") EXCEPT
                           !.exclusive_nonblocking_plugin = None],
                       "exclusive_nonblocking_plugin"), w)
    ELSE IF s.secondary
         THEN LET i == FirstWilling(NonblockingFactories, w)
                  s1 == Try(s, NonblockingFactories, w)
              IN  ShowScoreTier(
                      IF i = 0 THEN s1
                      ELSE [s1 EXCEPT !.exclusive_nonblocking_plugin =
                                          NonblockingFactories[i]], w)
         ELSE ShowScoreTier(s, w)

\* DebugFactoryScan with the `return` after each claim of the slot left out.
DebugFactoryScan_NoReturn(s, w) ==
    IF s.enable_debug_controls
    THEN LET i == FirstWilling(DebugFactories, w)
             s1 == Try(s, DebugFactories, w)
         IN  IF i = 0 THEN NonblockingTier(s1, w)
             ELSE NonblockingTier(
                      [s1 EXCEPT !.exclusive_blocking_plugin = DebugFactories[i]], w)
    ELSE NonblockingTier(s, w)

\* state.rs:215-229
DebugFactoryScan(s, w) ==
    IF s.enable_debug_controls
    THEN LET i == FirstWilling(DebugFactories, w)
             s1 == Try(s, DebugFactories, w)
         IN  IF i = 0 THEN NonblockingTier(s1, w)
             ELSE {Return([s1 EXCEPT !.exclusive_blocking_plugin = DebugFactories[i]],
                          "debug_factory")}
    ELSE NonblockingTier(s, w)

\* AfterFactoryScan with the early return of state.rs:212 left out.
AfterFactoryScan_NoReturn(s, w) == DebugFactoryScan(s, w)

\* state.rs:204-213
AfterFactoryScan(s, w) ==
    IF s.search = "blocking" \/ s.exclusive_blocking_plugin # None
    THEN {Return(s, "factory")}
    ELSE DebugFactoryScan(s, w)

\* EditFactoryScan without the ctx.secondary.is_none() condition of
\* state.rs:181.
EditFactoryScan_NoSecondaryCheck(s, w) ==
    LET i == FirstWilling(EditFactories, w)
        s1 == Try(s, EditFactories, w)
    IN  IF i = 0 THEN s1
        ELSE [s1 EXCEPT !.exclusive_blocking_plugin = EditFactories[i]]

\* state.rs:181-203
EditFactoryScan(s, w) ==
    IF ~s.secondary
    THEN LET i == FirstWilling(EditFactories, w)
             s1 == Try(s, EditFactories, w)
         IN  IF i = 0 THEN s1
             ELSE [s1 EXCEPT !.exclusive_blocking_plugin = EditFactories[i]]
    ELSE s

\* state.rs:175-203.  A search plugin made here starts in either sub-mode.
FactoryScan(s, w) ==
    LET i == FirstWilling(FirstFactories, w)
        s1 == Try(s, FirstFactories, w)
    IN  IF i = 0 THEN AfterFactoryScan(EditFactoryScan(s1, w), w)
        ELSE IF FirstFactories[i] = "search"
             THEN UNION {AfterFactoryScan([s1 EXCEPT !.search = m], w) :
                             m \in {"blocking", "nonblocking"}}
             ELSE AfterFactoryScan(
                      [s1 EXCEPT !.exclusive_blocking_plugin = FirstFactories[i]], w)

\* BlockingSlotTier without the teardown of state.rs:170.
BlockingSlotTier_NoTeardown(s, w) ==
    IF s.exclusive_blocking_plugin # None
    THEN {Return([Recv(s, "exclusive_blocking_plugin") EXCEPT !.secondary = sec],
                 "blocking_slot") : sec \in BOOLEAN}
         \cup {Return(Done([Recv(s, "exclusive_blocking_plugin") EXCEPT
                                !.secondary = sec],
                            "exclusive_blocking_plugin"),
                      "blocking_slot") : sec \in BOOLEAN}
    ELSE FactoryScan(s, w)

\* state.rs:163-173.  The plugin in the slot is handed &mut ctx, through which
\* it can load or drop the secondary map (ctx.secondary).
BlockingSlotTier(s, w) ==
    IF s.exclusive_blocking_plugin # None
    THEN {Return([Recv(s, "exclusive_blocking_plugin") EXCEPT !.secondary = sec],
                 "blocking_slot") : sec \in BOOLEAN}
         \cup {Return(Done([Recv(s, "exclusive_blocking_plugin") EXCEPT
                                !.exclusive_blocking_plugin = None,
                                !.secondary = sec],
                            "exclusive_blocking_plugin"),
                      "blocking_slot") : sec \in BOOLEAN}
    ELSE FactoryScan(s, w)

\* TimeTravelTier without the return of state.rs:159-161.
TimeTravelTier_NoReturn(s, w) ==
    UNION {BlockingSlotTier([Recv(s, "time_travel") EXCEPT !.time_travel_active = tt], w) :
           tt \in BOOLEAN}

\* state.rs:157-161.  time_travel.event decides whether it is active afterwards.
TimeTravelTier(s, w) ==
    UNION {LET s1 == [Recv(s, "time_travel") EXCEPT !.time_travel_active = tt]
           IN  IF s1.time_travel_active THEN {Return(s1, "time_travel")}
               ELSE BlockingSlotTier(s1, w) :
           tt \in BOOLEAN}

\* state.rs:118-311
event(s, w) ==
    IF s.search = "blocking" THEN SearchBlockingTier(s) ELSE TimeTravelTier(s, w)

(***************************************************************************)
(* The wizard: values, parsers and widgets.                                *)
(***************************************************************************)
\* How many questions the workflow asks, and how many frames are run.
NumQuestions == 3
MaxFrames == 5

\* A value with its concrete type t, as a Box<Cloneable> carries it.  A text
\* is a sequence of characters; a number is n; a pair (String, Box<Cloneable>)
\* or a tuple (String, R) has the label in s, the item in n and the item's
\* type in it; an f64 is counted in tenths.
Value(t, it, n, s) == [t |-> t, it |-> it, n |-> n, s |-> s]

Unit == Value("()", "", 0, <<>>)

\* Option<R>
NoAnswer == [some |-> FALSE, val |-> Unit]
Some(v) == [some |-> TRUE, val |-> v]

\* The lines a text box can be confirmed with.
Lines == {<<"5">>, <<"1">>, <<"0", ".", "5">>, <<"a">>}

DigitOf(c) ==
    CASE c = "0" -> 0 [] c = "1" -> 1 [] c = "5" -> 5 [] OTHER -> -1

AllDigits(line) == \A i \in DOMAIN line : DigitOf(line[i]) >= 0

RECURSIVE Decimal(_)
Decimal(line) ==
    IF line = <<>> THEN 0
    ELSE 10 * Decimal(SubSeq(line, 1, Len(line) - 1)) + DigitOf(line[Len(line)])

\* wizard.rs:130, input_string's parser
ParseString(line) == Some(Value("String", "", 0, line))

\* wizard.rs:134, input_usize's parser: line.parse::<usize>().ok()
ParseUsize(line) ==
    IF line # <<>> /\ AllDigits(line)
    THEN Some(Value("usize", "", Decimal(line), <<>>))
    ELSE NoAnswer

\* line.parse::<f64>() for lines of digits with at most one decimal digit,
\* in tenths; -1 when the line is no number.
ParseF64(line) ==
    IF line # <<>> /\ AllDigits(line) THEN 10 * Decimal(line)
    ELSE IF /\ Len(line) >= 3
            /\ line[Len(line) - 1] = "."
            /\ AllDigits(SubSeq(line, 1, Len(line) - 2))
            /\ DigitOf(line[Len(line)]) >= 0
         THEN 10 * Decimal(SubSeq(line, 1, Len(line) - 2)) + DigitOf(line[Len(line)])
         ELSE -1

\* wizard.rs:141-154, input_percent's parser
ParsePercent(line) ==
    LET num == ParseF64(line)
    IN  IF num >= 0 /\ num <= 10
        THEN Some(Value("f64", "", num, <<>>))
        ELSE NoAnswer

\* The parser the typed helper for answers of type r passes to input_something.
Parse(r, line) ==
    CASE r = "String" -> ParseString(line)
      [] r = "usize"  -> ParseUsize(line)
      [] r = "f64"    -> ParsePercent(line)

\* wizard.rs:204-213: the choices choose_neighborhood generates, as
\* (label, item) with the item boxed (wizard.rs:174-177).
NeighborhoodChoices ==
    <<[label |-> <<"A">>, item |-> Value("Neighborhood", "", 1, <<>>)],
      [label |-> <<"B">>, item |-> Value("Neighborhood", "", 2, <<>>)]>>

\* The questions a workflow can ask: the typed helpers of wizard.rs:129-154
\* and a choice (wizard.rs:156-192).
Question(op, r, choices) == [op |-> op, r |-> r, choices |-> choices]

QuestionKinds ==
    {Question("input_something", "String", <<>>),
     Question("input_something", "usize", <<>>),
     Question("input_something", "f64", <<>>),
     Question("choose_something", "Neighborhood", NeighborhoodChoices)}

\* A workflow asks a fixed sequence of questions; the query of a question is
\* its position.
Workflows == [1..NumQuestions -> QuestionKinds]

\* What TextBox::event and Menu::event answer for the frame's event.
TextBoxResults ==
    {[r |-> "StillActive", line |-> <<>>, idx |-> 0],
     [r |-> "Canceled", line |-> <<>>, idx |-> 0]}
    \cup {[r |-> "Done", line |-> l, idx |-> 0] : l \in Lines}

MenuResults(choices) ==
    {[r |-> "StillActive", line |-> <<>>, idx |-> 0],
     [r |-> "Canceled", line |-> <<>>, idx |-> 0]}
    \cup {[r |-> "Done", line |-> choices[i].label, idx |-> i] : i \in DOMAIN choices}

\* What a question call did, for the properties.
NoCall == [op |-> "none", replayed |-> FALSE, widget |-> "none", outcome |-> "none",
           line |-> <<>>, created |-> FALSE, rejected |-> FALSE]

\* A widget's event(input) takes the frame's event: the input is consumed
\* from then on.  query is the query the widget was made with.
WidgetEvent(s, widget, query, out) ==
    [s EXCEPT !.consumed = TRUE,
              !.fed = Append(@, [widget |-> widget, query |-> query,
                                 outcome |-> out.r, line |-> out.line]),
              !.call.widget = widget,
              !.call.outcome = out.r,
              !.call.line = out.line]

Result(s, answer) == [s EXCEPT !.result = answer]

\* A failed assert! or unwrap(): the call does not return.
Panic(s) == [s EXCEPT !.panicked = TRUE]

\* input_with_text_box without the assert!(self.alive) of wizard.rs:67.
input_with_text_box_NoAssert(s, query, r, out) ==
    IF s.consumed THEN Result(s, NoAnswer)
    ELSE LET s1 == IF s.tb = {}
                   THEN [s EXCEPT !.tb = {query}, !.call.created = TRUE]
                   ELSE s
             s2 == WidgetEvent(s1, "tb", CHOOSE x \in s1.tb : TRUE, out)
         IN  CASE out.r = "StillActive" -> Result(s2, NoAnswer)
               [] out.r = "Canceled" -> Result([s2 EXCEPT !.alive = FALSE], NoAnswer)
               [] out.r = "Done" ->
                    LET s3 == [s2 EXCEPT !.tb = {}]
                    IN  IF Parse(r, out.line).some
                        THEN Result(s3, Parse(r, out.line))
                        ELSE Result([s3 EXCEPT !.call.rejected = TRUE], NoAnswer)

\* wizard.rs:61-94
input_with_text_box(s, query, r, out) ==
    IF ~s.alive THEN Panic(s)
    ELSE IF s.consumed THEN Result(s, NoAnswer)
    ELSE LET s1 == IF s.tb = {}
                   THEN [s EXCEPT !.tb = {query}, !.call.created = TRUE]
                   ELSE s
             s2 == WidgetEvent(s1, "tb", CHOOSE x \in s1.tb : TRUE, out)
         IN  CASE out.r = "StillActive" -> Result(s2, NoAnswer)
               [] out.r = "Canceled" -> Result([s2 EXCEPT !.alive = FALSE], NoAnswer)
               [] out.r = "Done" ->
                    LET s3 == [s2 EXCEPT !.tb = {}]
                    IN  IF Parse(r, out.line).some
                        THEN Result(s3, Parse(r, out.line))
                        ELSE Result([s3 EXCEPT !.call.rejected = TRUE], NoAnswer)

\* input_something serving the front of ready_results without popping it.
input_something_NoPop(s, query, r, out) ==
    LET c == [s EXCEPT !.call.op = "input_something"]
    IN  IF c.ready_results # <<>>
        THEN LET first == Head(c.ready_results)
                 s1 == [c EXCEPT !.call.replayed = TRUE]
             IN  IF first.t = r THEN Result(s1, Some(first)) ELSE Panic(s1)
        ELSE LET s1 == input_with_text_box(c, query, r, out)
             IN  IF ~s1.panicked /\ s1.result.some
                 THEN [s1 EXCEPT !.confirmed_state = Append(@, s1.result.val)]
                 ELSE s1

\* input_something pushing onto confirmed_state whatever the text box gave.
input_something_PushAlways(s, query, r, out) ==
    LET c == [s EXCEPT !.call.op = "input_something"]
    IN  IF c.ready_results # <<>>
        THEN LET first == Head(c.ready_results)
                 s1 == [c EXCEPT !.ready_results = Tail(@), !.call.replayed = TRUE]
             IN  IF first.t = r THEN Result(s1, Some(first)) ELSE Panic(s1)
        ELSE LET s1 == input_with_text_box(c, query, r, out)
             IN  IF ~s1.panicked
                 THEN [s1 EXCEPT !.confirmed_state = Append(@, s1.result.val)]
                 ELSE s1

\* input_something putting a fresh answer at the front of confirmed_state
\* instead of pushing it at the end (wizard.rs:121).
input_something_PushFront(s, query, r, out) ==
    LET c == [s EXCEPT !.call.op = "input_something"]
    IN  IF c.ready_results # <<>>
        THEN LET first == Head(c.ready_results)
                 s1 == [c EXCEPT !.ready_results = Tail(@), !.call.replayed = TRUE]
             IN  IF first.t = r THEN Result(s1, Some(first)) ELSE Panic(s1)
        ELSE LET s1 == input_with_text_box(c, query, r, out)
             IN  IF ~s1.panicked /\ s1.result.some
                 THEN [s1 EXCEPT !.confirmed_state = <<s1.result.val>> \o @]
                 ELSE s1

\* wizard.rs:110-126
input_something(s, query, r, out) ==
    LET c == [s EXCEPT !.call.op = "input_something"]
    IN  IF c.ready_results # <<>>
        THEN LET first == Head(c.ready_results)
                 s1 == [c EXCEPT !.ready_results = Tail(@), !.call.replayed = TRUE]
             IN  IF first.t = r THEN Result(s1, Some(first)) ELSE Panic(s1)
        ELSE LET s1 == input_with_text_box(c, query, r, out)
             IN  IF ~s1.panicked /\ s1.result.some
                 THEN [s1 EXCEPT !.confirmed_state = Append(@, s1.result.val)]
                 ELSE s1

\* input_with_menu without the has_been_consumed() check of wizard.rs:226-228.
input_with_menu_NoConsumedCheck(s, out) ==
    IF ~s.alive THEN Panic(s)
    ELSE LET m == CHOOSE x \in s.menu : TRUE
             s1 == WidgetEvent(s, "menu", m.query, out)
         IN  CASE out.r = "Canceled" ->
                    Result([s1 EXCEPT !.menu = {}, !.alive = FALSE], NoAnswer)
               [] out.r = "StillActive" -> Result(s1, NoAnswer)
               [] out.r = "Done" ->
                    Result([s1 EXCEPT !.menu = {}],
                           Some(Value("(String, Box<Cloneable>)",
                                      m.choices[out.idx].item.t,
                                      m.choices[out.idx].item.n,
                                      m.choices[out.idx].label)))

\* wizard.rs:218-242.  The answer is the (name, item) of the menu's choice.
input_with_menu(s, out) ==
    IF ~s.alive THEN Panic(s)
    ELSE IF s.consumed THEN Result(s, NoAnswer)
    ELSE LET m == CHOOSE x \in s.menu : TRUE
             s1 == WidgetEvent(s, "menu", m.query, out)
         IN  CASE out.r = "Canceled" ->
                    Result([s1 EXCEPT !.menu = {}, !.alive = FALSE], NoAnswer)
               [] out.r = "StillActive" -> Result(s1, NoAnswer)
               [] out.r = "Done" ->
                    Result([s1 EXCEPT !.menu = {}],
                           Some(Value("(String, Box<Cloneable>)",
                                      m.choices[out.idx].item.t,
                                      m.choices[out.idx].item.n,
                                      m.choices[out.idx].label)))

\* choose_something making the menu (wizard.rs:172-179) before it looks at
\* ready_results.
choose_something_MenuFirst(s, query, r, choices, out) ==
    LET c0 == [s EXCEPT !.call.op = "choose_something"]
        c == IF c0.menu = {}
             THEN [c0 EXCEPT !.menu = {[query |-> query, choices |-> choices]},
                             !.call.created = TRUE]
             ELSE c0
    IN  IF c.ready_results # <<>>
        THEN LET first == Head(c.ready_results)
                 s1 == [c EXCEPT !.ready_results = Tail(@), !.call.replayed = TRUE]
             IN  IF first.t = "(String, Box<Cloneable>)" /\ first.it = r
                 THEN Result(s1, Some(Value("(String, R)", r, first.n, first.s)))
                 ELSE Panic(s1)
        ELSE LET s2 == input_with_menu(c, out)
             IN  IF ~s2.panicked /\ s2.result.some
                 THEN LET s3 == [s2 EXCEPT !.confirmed_state = Append(@, s2.result.val)]
                      IN  IF s2.result.val.it = r
                          THEN Result(s3, Some(Value("(String, R)", r,
                                                     s2.result.val.n, s2.result.val.s)))
                          ELSE Panic(s3)
                 ELSE s2

\* choose_something storing the chosen item alone instead of the
\* (label, item) pair of wizard.rs:184-186.
choose_something_StoresItem(s, query, r, choices, out) ==
    LET c == [s EXCEPT !.call.op = "choose_something"]
    IN  IF c.ready_results # <<>>
        THEN LET first == Head(c.ready_results)
                 s1 == [c EXCEPT !.ready_results = Tail(@), !.call.replayed = TRUE]
             IN  IF first.t = "(String, Box<Cloneable>)" /\ first.it = r
                 THEN Result(s1, Some(Value("(String, R)", r, first.n, first.s)))
                 ELSE Panic(s1)
        ELSE LET s1 == IF c.menu = {}
                       THEN [c EXCEPT !.menu = {[query |-> query, choices |-> choices]},
                                      !.call.created = TRUE]
                       ELSE c
                 s2 == input_with_menu(s1, out)
             IN  IF ~s2.panicked /\ s2.result.some
                 THEN LET s3 == [s2 EXCEPT !.confirmed_state =
                                     Append(@, Value(s2.result.val.it, "",
                                                     s2.result.val.n, <<>>))]
                      IN  IF s2.result.val.it = r
                          THEN Result(s3, Some(Value("(String, R)", r,
                                                     s2.result.val.n, s2.result.val.s)))
                          ELSE Panic(s3)
                 ELSE s2

\* wizard.rs:156-192
choose_something(s, query, r, choices, out) ==
    LET c == [s EXCEPT !.call.op = "choose_something"]
    IN  IF c.ready_results # <<>>
        THEN LET first == Head(c.ready_results)
                 s1 == [c EXCEPT !.ready_results = Tail(@), !.call.replayed = TRUE]
             IN  IF first.t = "(String, Box<Cloneable>)" /\ first.it = r
                 THEN Result(s1, Some(Value("(String, R)", r, first.n, first.s)))
                 ELSE Panic(s1)
        ELSE LET s1 == IF c.menu = {}
                       THEN [c EXCEPT !.menu = {[query |-> query, choices |-> choices]},
                                      !.call.created = TRUE]
                       ELSE c
                 s2 == input_with_menu(s1, out)
             IN  IF ~s2.panicked /\ s2.result.some
                 THEN LET s3 == [s2 EXCEPT !.confirmed_state = Append(@, s2.result.val)]
                      IN  IF s2.result.val.it = r
                          THEN Result(s3, Some(Value("(String, R)", r,
                                                     s2.result.val.n, s2.result.val.s)))
                          ELSE Panic(s3)
                 ELSE s2

(***************************************************************************)
(* The dispatcher as a state machine.                                      *)
(***************************************************************************)
Fields ==
    [secondary |-> secondary,
     exclusive_blocking_plugin |-> exclusive_blocking_plugin,
     exclusive_nonblocking_plugin |-> exclusive_nonblocking_plugin,
     show_score |-> show_score,
     enable_debug_controls |-> enable_debug_controls,
     hider |-> hider,
     search |-> search,
     time_travel_active |-> time_travel_active,
     ambient_plugins |-> ambient_plugins]

\* No query has been made.
NoView == [op |-> "none", id |-> None, current_selection |-> None, coloring |-> {},
           color |-> None, drawn |-> <<>>]

\* DefaultUIState::new, state.rs:52-75 with PluginsPerMap::new, state.rs:447-472
NewUI ==
    /\ secondary = FALSE
    /\ exclusive_blocking_plugin = None
    /\ exclusive_nonblocking_plugin = None
    /\ show_score = FALSE
    /\ hider = FALSE
    /\ search = None
    /\ time_travel_active = FALSE
    /\ ambient_plugins = AmbientList(enable_debug_controls)
    /\ pre = Fields
    /\ received = <<>>
    /\ tried = <<>>
    /\ returned_at = "not_called"
    /\ activated = {}
    /\ reported_done = {}

\* One call of DefaultUIState::event, state.rs:118-311
Event ==
    LET called == Fields @@ [received |-> <<>>, tried |-> <<>>,
                             returned_at |-> "not_called", activated |-> {},
                             reported_done |-> {}]
    IN  \E o \in UNION {event(called, w) : w \in WillingSets} :
        /\ pre' = Fields
        /\ secondary' = o.secondary
        /\ exclusive_blocking_plugin' = o.exclusive_blocking_plugin
        /\ exclusive_nonblocking_plugin' = o.exclusive_nonblocking_plugin
        /\ show_score' = o.show_score
        /\ enable_debug_controls' = o.enable_debug_controls
        /\ hider' = o.hider
        /\ search' = o.search
        /\ time_travel_active' = o.time_travel_active
        /\ ambient_plugins' = o.ambient_plugins
        /\ received' = o.received
        /\ tried' = o.tried
        /\ returned_at' = o.returned_at
        /\ activated' = o.activated
        /\ reported_done' = o.reported_done
        /\ UNCHANGED <<wizVars, view>>

(***************************************************************************)
(* The wizard and the workflow that owns it as a state machine.            *)
(***************************************************************************)
WizFields ==
    [alive |-> alive, tb |-> tb, menu |-> menu, confirmed_state |-> confirmed_state,
     ready_results |-> ready_results, consumed |-> consumed, panicked |-> panicked,
     fed |-> fed]

\* Wizard::new, wizard.rs:18-25; no frame has started.
NewWizard ==
    /\ alive = TRUE
    /\ tb = {}
    /\ menu = {}
    /\ confirmed_state = <<>>
    /\ in_frame = FALSE
    /\ ready_results = <<>>
    /\ consumed = FALSE
    /\ pc = 1
    /\ panicked = FALSE
    /\ frame = 0
    /\ answers = <<>>
    /\ fed = <<>>
    /\ last_call = NoCall
    /\ confirmed_at_wrap = <<>>
    /\ accepted = <<>>

InitWizard ==
    /\ workflow \in Workflows
    /\ NewWizard
    /\ enable_debug_controls = FALSE
    /\ NewUI
    /\ view = NoView

\* Wizard::wrap, wizard.rs:36-46, called by the workflow's owner at the start
\* of a frame with that frame's input.
Wrap ==
    /\ ~in_frame
    /\ ~panicked
    /\ frame < MaxFrames
    /\ frame' = frame + 1
    /\ last_call' = [NoCall EXCEPT !.op = "wrap"]
    /\ IF alive
       THEN /\ in_frame' = TRUE
            /\ ready_results' = confirmed_state
            /\ consumed' \in BOOLEAN
            /\ pc' = 1
            /\ answers' = <<>>
            /\ fed' = <<>>
            /\ confirmed_at_wrap' = confirmed_state
            /\ UNCHANGED panicked
       ELSE /\ panicked' = TRUE
            /\ UNCHANGED <<in_frame, ready_results, consumed, pc, answers, fed,
                           confirmed_at_wrap>>
    /\ UNCHANGED <<alive, tb, menu, confirmed_state, workflow, accepted>>
    /\ UNCHANGED <<uiVars, view>>

\* What asking question q at position i can do, one state per answer of the
\* widget.
AskOutcomes(s, i, q) ==
    IF q.op = "input_something"
    THEN {input_something(s, i, q.r, out) : out \in TextBoxResults}
    ELSE {choose_something(s, i, q.r, q.choices, out) : out \in MenuResults(q.choices)}

\* The workflow asks its next question of the WrappedWizard.
Ask ==
    /\ in_frame
    /\ ~panicked
    /\ pc <= Len(workflow)
    /\ \E o \in AskOutcomes(WizFields @@ [result |-> NoAnswer, call |-> NoCall],
                            pc, workflow[pc]) :
        /\ alive' = o.alive
        /\ tb' = o.tb
        /\ menu' = o.menu
        /\ confirmed_state' = o.confirmed_state
        /\ ready_results' = o.ready_results
        /\ consumed' = o.consumed
        /\ panicked' = o.panicked
        /\ fed' = o.fed
        /\ last_call' = o.call
        /\ answers' = IF o.panicked THEN answers ELSE Append(answers, o.result)
        /\ accepted' = IF ~o.panicked /\ ~o.call.replayed /\ o.result.some
                       THEN Append(accepted, o.result.val)
                       ELSE accepted
    /\ pc' = pc + 1
    /\ UNCHANGED <<in_frame, workflow, frame, confirmed_at_wrap>>
    /\ UNCHANGED <<uiVars, view>>

\* The workflow returns for this frame, with all its answers or at a question
\* that gave none; the WrappedWizard is dropped.
EndFrame ==
    /\ in_frame
    /\ ~panicked
    /\ \/ pc > Len(workflow)
       \/ answers # <<>> /\ ~answers[Len(answers)].some
    /\ in_frame' = FALSE
    /\ UNCHANGED <<alive, tb, menu, confirmed_state, ready_results, consumed, workflow,
                   pc, panicked, frame, answers, fed, last_call, confirmed_at_wrap,
                   accepted>>
    /\ UNCHANGED <<uiVars, view>>

NextWizard == Wrap \/ Ask \/ EndFrame

SpecWizard == InitWizard /\ [][NextWizard]_vars

(***************************************************************************)
(* The read-only queries of DefaultUIState: color_obj and draw.            *)
(***************************************************************************)
\* How many plugins give a color for the id asked about, at most.
MaxColoring == 2

\* The kinds of ID asked about: a Turn and one that is not a Turn.
ObjectIDs == {"Turn", "Lane"}

\* The first plugin of the list ps that is in the set coloring, or 0.
FirstColoring(ps, coloring) ==
    IF \E i \in DOMAIN ps : ps[i] \in coloring
    THEN CHOOSE i \in DOMAIN ps : /\ ps[i] \in coloring
                                  /\ \A j \in 1..(i - 1) : ps[j] \notin coloring
    ELSE 0

\* color_obj consulting the ambient plugins also when the plugin in the
\* blocking slot gives no color.
color_obj_SlotFallsThrough(s, id, current_selection, coloring) ==
    IF id # "Turn" /\ current_selection = id
    THEN "selected"
    ELSE IF s.search # None /\ "search" \in coloring
    THEN "search"
    ELSE IF s.exclusive_blocking_plugin # None
            /\ "exclusive_blocking_plugin" \in coloring
    THEN "exclusive_blocking_plugin"
    ELSE IF FirstColoring(s.ambient_plugins, coloring) = 0
    THEN None
    ELSE s.ambient_plugins[FirstColoring(s.ambient_plugins, coloring)]

\* DefaultUIState::color_obj, state.rs:77-106.  coloring is the set of
\* plugins whose color_for(id, ctx) is Some; the color returned is named by
\* who gave it.
color_obj(s, id, current_selection, coloring) ==
    IF id # "Turn" /\ current_selection = id
    THEN "selected"
    ELSE IF s.search # None /\ "search" \in coloring
    THEN "search"
    ELSE IF s.exclusive_blocking_plugin # None
    THEN IF "exclusive_blocking_plugin" \in coloring
         THEN "exclusive_blocking_plugin"
         ELSE None
    ELSE IF FirstColoring(s.ambient_plugins, coloring) = 0
    THEN None
    ELSE s.ambient_plugins[FirstColoring(s.ambient_plugins, coloring)]

\* What draw renders below the search plugin, state.rs:320-340
DrawBelowSearch(s) ==
    IF s.exclusive_blocking_plugin # None
    THEN <<"exclusive_blocking_plugin">>
    ELSE (IF s.exclusive_nonblocking_plugin # None
          THEN <<"exclusive_nonblocking_plugin">> ELSE <<>>)
         \o (IF s.show_score THEN <<"show_score">> ELSE <<>>)
         \o <<"sim_controls">>
         \o s.ambient_plugins

\* draw going on below a search plugin that is blocking.
draw_NoSearchReturn(s) ==
    IF s.search # None
    THEN <<"search">> \o DrawBelowSearch(s)
    ELSE DrawBelowSearch(s)

\* DefaultUIState::draw, state.rs:313-341: the plugins drawn, in order.
draw(s) ==
    IF s.search # None
    THEN IF s.search = "blocking"
         THEN <<"search">>
         ELSE <<"search">> \o DrawBelowSearch(s)
    ELSE DrawBelowSearch(s)

\* The plugins color_obj can ask for a color in this state.
ColorSources ==
    (IF search # None THEN {"search"} ELSE {})
    \cup (IF exclusive_blocking_plugin # None THEN {"exclusive_blocking_plugin"} ELSE {})
    \cup Range(ambient_plugins)

\* One call of color_obj(id, ctx).  The queries take &self and change
\* nothing, so a behaviour observes one query of the state it starts in.
ColorObj ==
    /\ view = NoView
    /\ \E id \in ObjectIDs, sel \in ObjectIDs \cup {None}, coloring \in SUBSET ColorSources :
          /\ Cardinality(coloring) <= MaxColoring
          /\ view' = [op |-> "color_obj", id |-> id, current_selection |-> sel,
                      coloring |-> coloring,
                      color |-> color_obj(Fields, id, sel, coloring),
                      drawn |-> <<>>]
    /\ UNCHANGED <<uiVars, wizVars>>

\* One call of draw(g, ctx)
Draw ==
    /\ view = NoView
    /\ view' = [op |-> "draw", id |-> None, current_selection |-> None,
                coloring |-> {}, color |-> None, drawn |-> draw(Fields)]
    /\ UNCHANGED <<uiVars, wizVars>>

\* The plugins a factory of state.rs:175-229 can put in the blocking slot.
SlotKinds(debug) ==
    (Range(FirstFactories) \ {"search"}) \cup Range(EditFactories)
    \cup (IF debug THEN Range(DebugFactories) ELSE {})

\* The states event() can leave the plugins in, as far as color_obj and draw
\* read them: a blocking search is only ever there with the blocking slot
\* empty, a debug plugin only with enable_debug_controls.
InitView ==
    /\ enable_debug_controls \in BOOLEAN
    /\ search \in {None, "blocking", "nonblocking"}
    /\ exclusive_blocking_plugin \in {None} \cup SlotKinds(enable_debug_controls)
    /\ search = "blocking" => exclusive_blocking_plugin = None
    /\ exclusive_nonblocking_plugin \in {None} \cup Range(NonblockingFactories)
    /\ show_score \in BOOLEAN
    /\ secondary = FALSE
    /\ hider = FALSE
    /\ time_travel_active = FALSE
    /\ ambient_plugins = AmbientList(enable_debug_controls)
    /\ pre = Fields
    /\ received = <<>>
    /\ tried = <<>>
    /\ returned_at = "not_called"
    /\ activated = {}
    /\ reported_done = {}
    /\ workflow = <<>>
    /\ NewWizard
    /\ view = NoView

NextView == ColorObj \/ Draw

SpecView == InitView /\ [][NextView]_vars

(***************************************************************************)
(* The dispatcher alone.                                                   *)
(***************************************************************************)
\* No workflow is running.
InitUI ==
    /\ enable_debug_controls \in BOOLEAN
    /\ NewUI
    /\ workflow = <<>>
    /\ NewWizard
    /\ view = NoView

NextUI == Event

SpecUI == InitUI /\ [][NextUI]_vars

(***************************************************************************)
(* Properties of the dispatcher.                                           *)
(***************************************************************************)
Called == returned_at # "not_called"

Got(p) == \E i \in DOMAIN received : received[i] = p

Count(p) == Cardinality({i \in DOMAIN received : received[i] = p})

\* The plugins of the tiers below the blocking-exclusive one.
LowerTierPlugins ==
    {"exclusive_nonblocking_plugin", "show_score", "search", "hider",
     "sim_controls", "layers"} \cup Range(pre.ambient_plugins)

\* The last call reached the check of the slot (state.rs:163) and found it occupied.
SlotOccupiedWhenChecked ==
    /\ Called
    /\ pre.search # "blocking"
    /\ ~time_travel_active
    /\ pre.exclusive_blocking_plugin # None

\* The factory scan of the last call filled the slot.
SlotClaimedByScan ==
    /\ Called
    /\ pre.exclusive_blocking_plugin = None
    /\ exclusive_blocking_plugin # None

\* C1 (tier precedence): in a call of event that finds the blocking slot
\* occupied when it checks it, or whose factory scan fills the slot, no
\* plugin of a lower tier (non-blocking slot, show_score, non-blocking
\* search, hider, sim_controls, ambient_plugins, layers) receives the event.
C1_TierPrecedence ==
    (SlotOccupiedWhenChecked \/ SlotClaimedByScan)
        => \A p \in LowerTierPlugins : ~Got(p)

\* A call finds the slot occupied while every lower tier has a plugin waiting.
C1_Witness ==
    /\ SlotOccupiedWhenChecked
    /\ Got("exclusive_blocking_plugin")
    /\ pre.show_score
    /\ pre.hider
    /\ pre.search = "nonblocking"
    /\ pre.exclusive_nonblocking_plugin # None

\* C2 (ambient totality, as claimed): every call of event runs the
\* time-travel scrape exactly once, whichever tier takes the event.
C2_ScrapeExactlyOnce == Called => Count("time_travel") = 1

\* C3 (at-most-one claim): no call of event turns both the blocking and the
\* non-blocking slot from empty to occupied.
C3_AtMostOneClaim ==
    ~ /\ Called
      /\ pre.exclusive_blocking_plugin = None
      /\ exclusive_blocking_plugin # None
      /\ pre.exclusive_nonblocking_plugin = None
      /\ exclusive_nonblocking_plugin # None

\* A debug factory fills the blocking slot in a call where the non-blocking
\* slot was empty and a secondary map was loaded, so the non-blocking
\* factories were next in line.
C3_Witness ==
    /\ SlotClaimedByScan
    /\ returned_at = "debug_factory"
    /\ pre.secondary
    /\ pre.exclusive_nonblocking_plugin = None

\* The last call was ended by one of the blocking tiers.
ClaimedByBlockingTier ==
    returned_at \in {"search_blocking", "time_travel", "blocking_slot", "factory",
                     "debug_factory"}

\* C12 (ambient plugins are never blocked from below, as claimed): in a call
\* of event that no blocking tier claims, sim_controls and every member of
\* ambient_plugins receive the event.
C12_AmbientNeverBlocked ==
    (Called /\ ~ClaimedByBlockingTier) =>
        /\ Got("sim_controls")
        /\ \A p \in Range(pre.ambient_plugins) : Got(p)

\* Every field but search is as it was when event() was called.
OnlySearchChanged ==
    /\ secondary = pre.secondary
    /\ exclusive_blocking_plugin = pre.exclusive_blocking_plugin
    /\ exclusive_nonblocking_plugin = pre.exclusive_nonblocking_plugin
    /\ show_score = pre.show_score
    /\ hider = pre.hider
    /\ time_travel_active = pre.time_travel_active
    /\ ambient_plugins = pre.ambient_plugins

C16_TimeTravelPreemption ==
    (Called /\ pre.search # "blocking" /\ time_travel_active) =>
        /\ received = <<"time_travel">>
        /\ tried = <<>>
        /\ returned_at = "time_travel"
        /\ secondary = pre.secondary
        /\ exclusive_blocking_plugin = pre.exclusive_blocking_plugin
        /\ exclusive_nonblocking_plugin = pre.exclusive_nonblocking_plugin
        /\ show_score = pre.show_score
        /\ hider = pre.hider
        /\ search = pre.search

\* Time travel becomes active in a call that found the blocking slot occupied.
C16_Witness ==
    /\ Called
    /\ pre.search # "blocking"
    /\ time_travel_active
    /\ ~pre.time_travel_active
    /\ pre.exclusive_blocking_plugin # None

\* C17 (slot teardown): in every call of event, each exclusivity slot goes
\* from occupied to empty only if its plugin received the event and reported
\* done, and is empty whenever its plugin reported done; the call after a
\* blocking plugin reported done starts with the slot empty and does not hand
\* the event to a slot plugin.
C17_SlotTeardown ==
    [][/\ (exclusive_blocking_plugin # None /\ exclusive_blocking_plugin' = None)
             => /\ "exclusive_blocking_plugin" \in reported_done'
                /\ \E i \in DOMAIN received' : received'[i] = "exclusive_blocking_plugin"
       /\ "exclusive_blocking_plugin" \in reported_done'
             => exclusive_blocking_plugin' = None
       /\ (exclusive_nonblocking_plugin # None /\ exclusive_nonblocking_plugin' = None)
             => /\ "exclusive_nonblocking_plugin" \in reported_done'
                /\ \E i \in DOMAIN received' :
                       received'[i] = "exclusive_nonblocking_plugin"
       /\ "exclusive_nonblocking_plugin" \in reported_done'
             => exclusive_nonblocking_plugin' = None
       /\ "exclusive_blocking_plugin" \in reported_done
             => /\ pre'.exclusive_blocking_plugin = None
                /\ \A i \in DOMAIN received' : received'[i] # "exclusive_blocking_plugin"
      ]_vars

\* The plugin in the blocking slot receives the event, reports done and is
\* torn down, with lower-tier plugins present that the next call can reach.
C17_Witness ==
    /\ pre.exclusive_blocking_plugin # None
    /\ Got("exclusive_blocking_plugin")
    /\ "exclusive_blocking_plugin" \in reported_done
    /\ exclusive_blocking_plugin = None
    /\ returned_at = "blocking_slot"
    /\ show_score

\* The order the claim gives to the blocking-tool factories.
UnconditionalOrder ==
    <<"logs", "search", "warp", "a_b_tests", "color_picker", "draw_neighborhoods",
      "map_edits", "road_editor", "scenarios", "stop_sign_editor",
      "traffic_signal_editor">>

DebugOrder == <<"chokepoints", "classification", "floodfill", "geom_validation">>

IsBlockingFactory(f) == f \in Range(UnconditionalOrder) \cup Range(DebugOrder)

\* The blocking-tool factories the last call tried, in the order it tried them.
TriedBlocking == SelectSeq(tried, IsBlockingFactory)

IsPrefix(a, b) == Len(a) <= Len(b) /\ a = SubSeq(b, 1, Len(a))

\* The last call reached the factory scan of state.rs:175.
ReachedScan ==
    /\ Called
    /\ pre.search # "blocking"
    /\ ~time_travel_active
    /\ pre.exclusive_blocking_plugin = None

\* Factory f activated, took the blocking slot and ended the call.
ClaimsSlotAndStops(f) ==
    /\ exclusive_blocking_plugin = f
    /\ TriedBlocking # <<>>
    /\ TriedBlocking[Len(TriedBlocking)] = f
    /\ \A p \in LowerTierPlugins : ~Got(p)

\* C18 (factory scan, as claimed): with the blocking slot empty the factories
\* are tried in the one order logs, search, warp, the edit factories, the
\* debug factories; the first that activates claims the blocking slot, no
\* later one is tried and no lower tier receives the event.
C18_FirstFactoryClaimsSlot ==
    ReachedScan =>
        /\ IsPrefix(TriedBlocking, UnconditionalOrder \o DebugOrder)
        /\ \A f \in activated : IsBlockingFactory(f) => ClaimsSlotAndStops(f)

\* The factories the scan may try in the state the call started in.
ApplicableUnconditional ==
    IF pre.secondary THEN SubSeq(UnconditionalOrder, 1, 3) ELSE UnconditionalOrder

ApplicableDebug == IF enable_debug_controls THEN DebugOrder ELSE <<>>

\* C18 (amended): with the blocking slot empty the factories are tried in
\* the order logs, search, warp, then the edit factories if no secondary map
\* is loaded, then the debug factories if enable_debug_controls; a factory
\* other than search that activates claims the slot, is the last one tried
\* and no lower tier receives the event; the search factory fills
\* primary_plugins.search instead, ends the unconditional scan, and ends the
\* call only if the new plugin is blocking; when none activates all the
\* applicable ones were tried and the slot stays empty.
C18_FactoryScanOrder ==
    ReachedScan =>
        /\ \E i \in 0..Len(ApplicableUnconditional), j \in 0..Len(ApplicableDebug) :
              TriedBlocking = SubSeq(ApplicableUnconditional, 1, i)
                              \o SubSeq(ApplicableDebug, 1, j)
        /\ \A f \in activated :
              (IsBlockingFactory(f) /\ f # "search") => ClaimsSlotAndStops(f)
        /\ "search" \in activated =>
              /\ "warp" \notin Range(tried)
              /\ exclusive_blocking_plugin \notin Range(UnconditionalOrder)
              /\ returned_at = "factory" =>
                    /\ search = "blocking"
                    /\ TriedBlocking = <<"logs", "search">>
                    /\ \A p \in LowerTierPlugins : ~Got(p)
        /\ (\A f \in activated : ~IsBlockingFactory(f)) =>
              /\ TriedBlocking = ApplicableUnconditional \o ApplicableDebug
              /\ exclusive_blocking_plugin = None

\* A factory in the middle of the order claims the slot after the ones
\* before it declined, in an event that a lower-tier factory would also take.
C18_Witness ==
    /\ ReachedScan
    /\ exclusive_blocking_plugin = "map_edits"
    /\ tried = SubSeq(UnconditionalOrder, 1, 7)
    /\ pre.show_score

\* C19 (debug gating, as claimed): the debug factories are tried only with
\* enable_debug_controls and only in calls where every unconditional factory
\* was tried and none activated; without enable_debug_controls no debug
\* factory holds the slot, no hider exists and layers receives no event.
C19_DebugAfterAllDeclined ==
    /\ (\E d \in Range(DebugOrder) : d \in Range(tried)) =>
          /\ enable_debug_controls
          /\ IsPrefix(UnconditionalOrder, tried)
          /\ activated \cap Range(UnconditionalOrder) = {}
    /\ ~enable_debug_controls =>
          /\ exclusive_blocking_plugin \notin Range(DebugOrder)
          /\ ~hider
          /\ "hider" \notin Range(tried)
          /\ ~Got("layers")

\* C19 (amended): the debug factories are tried only with
\* enable_debug_controls and only after the unconditional scan ended without
\* a claim of the slot: every unconditional factory applicable in that event
\* (the edit factories are not when a secondary map is loaded) was tried and
\* declined, or the search factory made a search plugin that is not
\* blocking; without enable_debug_controls no debug factory holds the slot,
\* no hider exists and layers receives no event.
C19_DebugGating ==
    /\ (\E d \in Range(DebugOrder) : d \in Range(tried)) =>
          /\ enable_debug_controls
          /\ activated \cap Range(UnconditionalOrder) \subseteq {"search"}
          /\ exclusive_blocking_plugin \notin Range(UnconditionalOrder)
          /\ IF "search" \in activated
             THEN IsPrefix(<<"logs", "search">>, tried)
             ELSE IsPrefix(ApplicableUnconditional, tried)
    /\ ~enable_debug_controls =>
          /\ exclusive_blocking_plugin \notin Range(DebugOrder)
          /\ ~hider
          /\ "hider" \notin Range(tried)
          /\ ~Got("layers")

\* A debug factory claims the slot after all eleven unconditional factories
\* declined.
C19_Witness ==
    /\ enable_debug_controls
    /\ returned_at = "debug_factory"
    /\ exclusive_blocking_plugin = "floodfill"
    /\ IsPrefix(UnconditionalOrder, tried)

\* The show_score step of state.rs:254-266 ran in the last call.
ShowScoreHandled ==
    IF pre.show_score THEN Got("show_score") ELSE "show_score" \in Range(tried)

\* C20 (non-blocking-exclusive tier): the non-blocking slot goes from empty
\* to occupied only in a call with a secondary map loaded, and a call in
\* which the slot's plugin ran (staying or torn down) or its factories were
\* tried goes on to the stackable modal tier.
C20_NonblockingTier ==
    /\ (Called /\ pre.exclusive_nonblocking_plugin = None
               /\ exclusive_nonblocking_plugin # None)
          => pre.secondary /\ secondary
    /\ (Got("exclusive_nonblocking_plugin") \/ "diff_all" \in Range(tried))
          => /\ ShowScoreHandled
             /\ returned_at \in {"search_nonblocking", "end"}

\* The non-blocking plugin is torn down in a call that goes on to show_score
\* and the ambient plugins.
C20_Witness ==
    /\ pre.exclusive_nonblocking_plugin # None
    /\ "exclusive_nonblocking_plugin" \in reported_done
    /\ exclusive_nonblocking_plugin = None
    /\ Got("show_score")
    /\ Got("sim_controls")

\* The last call reached the stackable modal tier (state.rs:254) with a
\* search plugin that was not blocking: the one it started with, or one the
\* search factory made in this call without ending it.
ReachedModalTierWithSearch ==
    /\ returned_at \in {"search_nonblocking", "end"}
    /\ pre.search = "nonblocking" \/ "search" \in activated

EditingFactories ==
    {"a_b_tests", "color_picker", "draw_neighborhoods", "map_edits", "road_editor",
     "scenarios", "stop_sign_editor", "traffic_signal_editor"}

ComparisonPlugins == {"diff_all", "diff_trip"}

\* C24 (editing is excluded during A/B comparison): in a call of event made
\* with a secondary map loaded no editing factory is tried or activates, and
\* a blocking slot that was empty is claimed, if at all, by logs, warp or a
\* debug factory; the factories of diff_all and diff_trip are tried, and the
\* non-blocking slot filled, only in a call with a secondary map loaded.
C24_NoEditingDuringComparison ==
    /\ (Called /\ pre.secondary) =>
          /\ \A f \in EditingFactories : f \notin Range(tried) /\ f \notin activated
          /\ (pre.exclusive_blocking_plugin = None /\ exclusive_blocking_plugin # None)
                => exclusive_blocking_plugin \in {"logs", "warp"} \cup Range(DebugOrder)
    /\ (Called /\ ~pre.secondary /\ ReachedScan
               /\ activated \cap {"logs", "search", "warp"} = {}) =>
          "a_b_tests" \in Range(tried)
    /\ (\E f \in ComparisonPlugins : f \in Range(tried) \/ f \in activated) =>
          pre.secondary /\ secondary
    /\ (Called /\ pre.exclusive_nonblocking_plugin = None) =>
          exclusive_nonblocking_plugin \in
              (IF pre.secondary THEN ComparisonPlugins \cup {None} ELSE {None})

\* With a secondary map loaded the scan goes from warp straight to the debug
\* factories, one of which claims the slot.
C24_Witness ==
    /\ Called
    /\ pre.secondary
    /\ enable_debug_controls
    /\ tried = <<"logs", "search", "warp", "chokepoints", "classification">>
    /\ exclusive_blocking_plugin = "classification"
    /\ returned_at = "debug_factory"

(***************************************************************************)
(* Properties of the wizard.                                               *)
(***************************************************************************)
IsQuestion(op) == op \in {"input_something", "choose_something"}

\* The last step was a question call that returned.
Answered == IsQuestion(last_call.op) /\ ~panicked /\ answers # <<>>

LastAnswer == answers[Len(answers)]

\* A text box took the event, was confirmed, and the parser of its question
\* refused the line.
Rejected(e) ==
    /\ e.widget = "tb"
    /\ e.outcome = "Done"
    /\ e.query \in DOMAIN workflow
    /\ ~Parse(workflow[e.query].r, e.line).some

RejectedThisFrame == \E i \in DOMAIN fed : Rejected(fed[i])

\* The values the parser for answers of type r lets through.
AcceptedValues(r) == {Parse(r, l).val : l \in {x \in Lines : Parse(r, x).some}}

\* C4 (replay idempotence): the confirmed list is, in order, the fresh
\* answers the widgets gave, whatever frames passed in between; in every
\* frame each question already confirmed when the frame was wrapped is
\* answered, and every answer a question returns, fresh or replayed, is the
\* one first given at that position.
C4_ReplayIdempotence ==
    /\ Len(confirmed_state) = Len(accepted)
    /\ \A i \in DOMAIN answers :
        /\ i <= Len(confirmed_at_wrap) => answers[i].some
        /\ answers[i].some => i <= Len(accepted) /\ answers[i].val = accepted[i]

\* All the questions are replayed in a frame that comes after at least one
\* idle frame.
C4_Witness ==
    /\ frame >= NumQuestions + 2
    /\ Len(confirmed_at_wrap) = NumQuestions
    /\ Len(answers) = NumQuestions
    /\ \A i \in DOMAIN answers : answers[i].some
    /\ fed = <<>>

\* C5 (cancellation terminality, as claimed): once the wizard is aborted
\* every later question call or wrap returns, with no answer, and alive
\* stays false.
C5_AbortedCallsReturnNoAnswer ==
    [][~alive =>
          /\ ~alive'
          /\ ~panicked'
          /\ (answers' # answers /\ answers' # <<>> => ~answers'[Len(answers')].some)]_vars

\* C5 (amended): once the wizard is aborted, alive stays false, no later
\* call yields an answer or changes the confirmed list, and the first
\* question call or wrap after the abort does not return: it fails
\* assert!(alive).
C5_AbortedIsTerminal ==
    [][~alive =>
          /\ ~alive'
          /\ answers' = answers
          /\ confirmed_state' = confirmed_state
          /\ (last_call' # last_call \/ frame' # frame \/ pc' # pc => panicked')]_vars

\* A question asked in the frame of the cancel, after it.
C5_Witness ==
    /\ ~alive
    /\ panicked
    /\ in_frame
    /\ IsQuestion(last_call.op)
    /\ answers # <<>>

\* C6 (validator gate): a frame in which a text box was confirmed with a
\* line its parser refuses leaves confirmed_state as it was at the wrap, and
\* every stored answer of a text question, in confirmed_state and in
\* ready_results, is a value the parser of that question lets through.
C6_ValidatorGate ==
    /\ RejectedThisFrame => confirmed_state = confirmed_at_wrap
    /\ \A i \in DOMAIN confirmed_state :
        /\ i \in DOMAIN workflow
        /\ workflow[i].op = "input_something"
              => confirmed_state[i] \in AcceptedValues(workflow[i].r)
    /\ \A i \in DOMAIN ready_results :
        LET k == Len(confirmed_at_wrap) - Len(ready_results) + i
        IN  /\ k \in DOMAIN workflow
            /\ workflow[k].op = "input_something"
                  => ready_results[i] \in AcceptedValues(workflow[k].r)

\* A line was refused after an earlier answer had been confirmed, and the
\* workflow went on asking in the same frame.
C6_Witness ==
    /\ RejectedThisFrame
    /\ confirmed_state # <<>>
    /\ Answered
    /\ ~last_call.rejected
    /\ ~last_call.replayed

\* C7 (one event, one widget): in a frame at most one widget is fed the
\* event; a question that is not replayed and finds the input consumed
\* returns no answer and feeds no widget; at most one answer is confirmed
\* per frame.
C7_OneEventOneWidget ==
    /\ Len(fed) <= 1
    /\ Len(confirmed_state) <= Len(confirmed_at_wrap) + 1
    /\ (Answered /\ ~last_call.replayed /\ last_call.widget = "none")
          => ~LastAnswer.some /\ consumed

\* A widget confirmed an answer with the frame's event and the next
\* question, asked in the same frame, declined.
C7_Witness ==
    /\ Len(fed) = 1
    /\ fed[1].outcome = "Done"
    /\ Len(confirmed_state) = Len(confirmed_at_wrap) + 1
    /\ Answered
    /\ ~last_call.replayed
    /\ last_call.widget = "none"

\* C8 (replay is pure): a question asked while ready_results is non-empty
\* returns the front stored answer, pops it, and leaves tb, menu, alive,
\* confirmed_state and the input as they were; no widget is made or fed.
C8_ReplayIsPure ==
    [][(in_frame /\ ~panicked /\ ready_results # <<>> /\ pc' = pc + 1) =>
          /\ UNCHANGED <<tb, menu, alive, confirmed_state, consumed, fed>>
          /\ ~panicked'
          /\ ready_results' = Tail(ready_results)
          /\ ~last_call'.created
          /\ last_call'.widget = "none"
          /\ answers' # <<>>
          /\ answers'[Len(answers')].some
          /\ answers'[Len(answers')].val.n = Head(ready_results).n
          /\ answers'[Len(answers')].val.s = Head(ready_results).s]_vars

\* An answer was replayed while a widget of a later question was open and
\* the input still unconsumed.
C8_Witness ==
    /\ Answered
    /\ last_call.replayed
    /\ LastAnswer.some
    /\ tb # {} \/ menu # {}
    /\ ~consumed

\* C9 (cancel outcome, as claimed): when the widget of a question reports
\* Canceled, the wizard is dead, the question returns no answer, nothing is
\* appended to confirmed_state, and the widget (tb or menu) is gone.
C9_CancelDestroysWidget ==
    (Answered /\ last_call.outcome = "Canceled") =>
        /\ ~alive
        /\ ~LastAnswer.some
        /\ confirmed_state = confirmed_at_wrap
        /\ last_call.widget = "tb" => tb = {}
        /\ last_call.widget = "menu" => menu = {}

\* C10 (invalid input keeps the question open, as claimed): in a frame in
\* which a text box was confirmed with a line its parser refuses, the wizard
\* stays alive, the question stays unanswered, and the text box of that
\* question is still there for Wizard::draw.
C10_RejectedKeepsTextBox ==
    \A i \in DOMAIN fed :
        Rejected(fed[i]) =>
            /\ alive
            /\ confirmed_state = confirmed_at_wrap
            /\ Len(confirmed_state) = fed[i].query - 1
            /\ tb = {fed[i].query}

\* C11 (widget exclusion, as claimed): in every reachable state of the
\* wizard at most one of the text box and the menu is present.
C11_AtMostOneWidget == ~(tb # {} /\ menu # {})

\* The boxed answer v has the shape question q stores and downcasts to:
\* an R for input_something (wizard.rs:117, 121), a (String, Box<Cloneable>)
\* holding an R for choose_something (wizard.rs:164-168, 184-186).
StoredShape(q, v) ==
    IF q.op = "input_something"
    THEN v.t = q.r
    ELSE v.t = "(String, Box<Cloneable>)" /\ v.it = q.r

\* C22 (typed replay): a call that pops a stored answer never fails its
\* downcast; every stored answer has the shape of the question at its
\* position, and the answer at the front of ready_results is the one stored
\* for the question asked next; a replayed choice returns the label and the
\* value of one choice of its menu, the ones stored when it was confirmed.
C22_TypedReplay ==
    /\ last_call.replayed => ~panicked
    /\ \A i \in DOMAIN confirmed_state :
          /\ i \in DOMAIN workflow
          /\ StoredShape(workflow[i], confirmed_state[i])
    /\ (in_frame /\ ~panicked /\ ready_results # <<>>) =>
          /\ pc = Len(confirmed_at_wrap) - Len(ready_results) + 1
          /\ pc \in DOMAIN workflow
          /\ pc \in DOMAIN confirmed_state
          /\ ready_results[1] = confirmed_state[pc]
          /\ StoredShape(workflow[pc], ready_results[1])
    /\ \A i \in DOMAIN answers :
          (/\ i <= Len(confirmed_at_wrap)
           /\ i \in DOMAIN workflow
           /\ workflow[i].op = "choose_something") =>
              /\ answers[i].some
              /\ i \in DOMAIN confirmed_state
              /\ answers[i].val.t = "(String, R)"
              /\ answers[i].val.it = workflow[i].r
              /\ answers[i].val.s = confirmed_state[i].s
              /\ answers[i].val.n = confirmed_state[i].n
              /\ \E k \in DOMAIN workflow[i].choices :
                    /\ workflow[i].choices[k].label = answers[i].val.s
                    /\ workflow[i].choices[k].item.n = answers[i].val.n

\* A choice is replayed after a number was replayed before it in the frame.
C22_Witness ==
    /\ Answered
    /\ Len(answers) = 2
    /\ workflow[1] = Question("input_something", "usize", <<>>)
    /\ last_call.op = "choose_something"
    /\ last_call.replayed
    /\ answers[1].some
    /\ LastAnswer.some
    /\ LastAnswer.val.s = <<"B">>
    /\ LastAnswer.val.n = 2

\* C23 (confirmed list is append-only): every step leaves confirmed_state
\* as it is or appends one answer at its end, and appends only in a question
\* call whose widget reported Done with a value that was accepted; a frame
\* appends at most one answer to the list it was wrapped with; wrap makes
\* ready_results a copy of the whole list, and a question call leaves it
\* alone or pops its front to replay it, so it is always the tail of the
\* wrapped list that is not replayed yet.
C23_AppendOnly ==
    [][/\ \/ confirmed_state' = confirmed_state
          \/ /\ in_frame
             /\ Len(confirmed_state') = Len(confirmed_state) + 1
             /\ SubSeq(confirmed_state', 1, Len(confirmed_state)) = confirmed_state
             /\ IsQuestion(last_call'.op)
             /\ ~last_call'.replayed
             /\ last_call'.outcome = "Done"
             /\ ~last_call'.rejected
       /\ IsPrefix(confirmed_at_wrap', confirmed_state')
       /\ Len(confirmed_state') <= Len(confirmed_at_wrap') + 1
       /\ (frame' # frame /\ ~panicked') =>
             /\ ready_results' = confirmed_state
             /\ confirmed_state' = confirmed_state
       /\ frame' = frame =>
             \/ ready_results' = ready_results
             \/ /\ ready_results # <<>>
                /\ ready_results' = Tail(ready_results)
                /\ last_call'.replayed
                /\ confirmed_state' = confirmed_state
       /\ Len(ready_results') <= Len(confirmed_at_wrap')
       /\ ready_results' = SubSeq(confirmed_at_wrap',
                                  Len(confirmed_at_wrap') - Len(ready_results') + 1,
                                  Len(confirmed_at_wrap'))
      ]_vars

\* A frame wrapped with two answers, confirmed in two earlier frames, has
\* replayed the first and still holds the second.
C23_Witness ==
    /\ in_frame
    /\ frame >= 3
    /\ Len(confirmed_at_wrap) = 2
    /\ confirmed_state = confirmed_at_wrap
    /\ Len(ready_results) = 1
    /\ last_call.replayed
    /\ ~panicked

(***************************************************************************)
(* Properties of color_obj and draw.                                       *)
(***************************************************************************)
\* The current-selection highlight answers: the id asked about is the
\* selected one and not a Turn.
HighlightApplies == view.id # "Turn" /\ view.current_selection = view.id

Gives(p) == p \in view.coloring

\* The plugins color_obj consults according to the claim, in its order.
ConsultOrder == <<"search", "exclusive_blocking_plugin">> \o ambient_plugins

\* The color is the answer of the first of the plugins ps that gives one, or
\* None if none of them does.
FirstAnswerOf(ps) ==
    IF \A i \in DOMAIN ps : ~Gives(ps[i])
    THEN view.color = None
    ELSE \E i \in DOMAIN ps : /\ view.color = ps[i]
                              /\ Gives(ps[i])
                              /\ \A j \in 1..(i - 1) : ~Gives(ps[j])

\* C13 (coloring priority, as claimed): color_obj returns the selection
\* highlight if it applies, else the first non-empty answer among the search
\* plugin, the blocking-slot plugin and the ambient plugins in list order, and
\* None only when none of them gives a color.
C13_FirstNonEmptyAnswer ==
    view.op = "color_obj" =>
        IF HighlightApplies THEN view.color = "selected"
        ELSE FirstAnswerOf(ConsultOrder)

\* C13 (amended): color_obj returns the selection highlight if it applies,
\* else the search plugin's color if it gives one, else, when the blocking
\* slot is occupied, whatever its plugin answers, None included; the ambient
\* plugins are consulted, in list order, only when the blocking slot is empty.
C13_ColoringPriority ==
    view.op = "color_obj" =>
        IF HighlightApplies THEN view.color = "selected"
        ELSE IF Gives("search") THEN view.color = "search"
        ELSE IF exclusive_blocking_plugin # None
        THEN view.color = (IF Gives("exclusive_blocking_plugin")
                           THEN "exclusive_blocking_plugin" ELSE None)
        ELSE FirstAnswerOf(ambient_plugins)

\* The plugin in the blocking slot has no color for an id that two ambient
\* plugins have one for, and color_obj returns None.
C13_Witness ==
    /\ view.op = "color_obj"
    /\ ~HighlightApplies
    /\ exclusive_blocking_plugin # None
    /\ view.coloring = {"show_route", "follow"}
    /\ view.color = None

\* What is drawn below the search plugin according to the claim.
ClaimedBelowSearch ==
    IF exclusive_blocking_plugin # None
    THEN <<"exclusive_blocking_plugin">>
    ELSE SelectSeq(<<"exclusive_nonblocking_plugin", "show_score">>,
                   LAMBDA p : \/ p = "exclusive_nonblocking_plugin"
                                 /\ exclusive_nonblocking_plugin # None
                              \/ p = "show_score" /\ show_score)
         \o <<"sim_controls">> \o ambient_plugins

\* C14 (draw tiers, as claimed): draw renders the search plugin if present,
\* then the blocking plugin alone if the slot is occupied, and otherwise the
\* non-blocking plugin, show_score, sim_controls and every ambient plugin;
\* which plugins are present decides it all.
C14_DrawByPresence ==
    view.op = "draw" =>
        view.drawn = (IF search # None THEN <<"search">> ELSE <<>>)
                     \o ClaimedBelowSearch

\* C14 (amended): draw renders the search plugin if present and, if that
\* plugin is blocking, nothing else; otherwise the blocking plugin alone if
\* the slot is occupied, and otherwise the non-blocking plugin, show_score,
\* sim_controls and every ambient plugin.
C14_DrawTiers ==
    view.op = "draw" =>
        /\ search = "blocking" => view.drawn = <<"search">>
        /\ search = "nonblocking" => view.drawn = <<"search">> \o ClaimedBelowSearch
        /\ search = None => view.drawn = ClaimedBelowSearch

\* A blocking search is drawn alone although show_score and a non-blocking
\* plugin are present and the blocking slot is empty.
C14_Witness ==
    /\ view.op = "draw"
    /\ search = "blocking"
    /\ show_score
    /\ exclusive_nonblocking_plugin # None
    /\ view.drawn = <<"search">>

====
